---- MODULE Spec2Model ----
(***************************************************************************)
(* Storage-volume resource of the Redfish provider                         *)
(* (redfish/resource_redfish_storage_volume.go): the create, update,       *)
(* delete and read handlers, run by concurrent mutations against           *)
(* management controllers, with the per-endpoint mutex, the power          *)
(* operation and the job poller they call.                                 *)
(***************************************************************************)
EXTENDS Integers, Sequences, FiniteSets, TLC

\* ---------------------------------------------------------------- bounds
\* volume_job_timeout and reset_timeout, in units of the check interval
JobTimeoutTicks == 2
ResetTimeoutTicks == 1
\* the longest lists of attached drives and of requested names given to
\* getDrives on its own
MaxAttached == 2
MaxNames == 2

\* the handler calls that may run concurrently
Procs == {"m1", "m2"}
Endpoints == {"e1", "e2"}

\* ------------------------------------------------------- schema values
ImmediateApplyTime == "Immediate"
OnResetApplyTime == "OnReset"
ApplyTimes == {ImmediateApplyTime, OnResetApplyTime}
StatusAccepted == 202
Statuses == {200, StatusAccepted}
\* the Location header of a response: absent or empty, or the URI of the
\* job the controller created for that request
NoLocation == << >>
Locations(p) == {NoLocation, <<"/Jobs/JID", p>>}
Nil == "nil"
\* d.Get("drives"): empty, a blank entry, one name
DriveLists == {<< >>, <<Nil>>, <<"disk0">>}
\* what Drives() of the controller may return
AttachedDrives == {<< >>, <<"disk0">>, <<"disk0", "disk1">>}
\* what GetOperationApplyTimeValues may return
OperationApplyTimeLists ==
    {<< >>, <<ImmediateApplyTime>>, <<OnResetApplyTime>>,
     <<ImmediateApplyTime, OnResetApplyTime>>}
StorageID == "RAID.Integrated.1-1"
VolumeName == "vol0"
ExistingVolume == "/Volumes/Disk.Virtual.0"
NewVolume == "/Volumes/Disk.Virtual.1"
\* what Volumes() of the controller may return: (Name, ODataID) pairs
VolumeLists ==
    {<< >>, <<<<"other", ExistingVolume>>>>,
     <<<<"other", ExistingVolume>>, <<VolumeName, NewVolume>>>>,
     <<<<VolumeName, NewVolume>>, <<VolumeName, ExistingVolume>>>>}
JobStates == {"Running", "Completed", "Failed"}
JobMessages == {"disk not found", "controller busy"}

NoError == << >>
NotRetrieved == [retrieved |-> FALSE, values |-> << >>]
\* the job poller before it is called
NoJob == [state |-> "None", message |-> ""]

VARIABLES
    pc,        \* where each handler call stands
    op,        \* the handler called: create, update, delete, read
    d,         \* schema.ResourceData of the call (configuration and Id)
    held,      \* redfishMutexKV: the locked keys, with the call holding each
    deferKey,  \* the key the deferred Unlock was given
    jobID,     \* local jobID
    diags,     \* the diagnostics returned
    log,       \* requests the call has sent to the controller, in order
    elapsed,   \* intervals slept in the reset wait and in the job wait
    operationApplyTimes,  \* local operationApplyTimes, once retrieved
    res,       \* local res: the response to the mutation request
    storageVolumes,  \* local volumes: what storage.Volumes() returned
    job,       \* the job poller: its state and the message of a failed job
    ctxDone,   \* ctx of the call has been canceled
    drivesCall \* a call of getDrives: its arguments and what it returned

vars == <<pc, op, d, held, deferKey, jobID, diags, log, elapsed,
          operationApplyTimes, res, storageVolumes, job, ctxDone,
          drivesCall>>

Req(kind, arg) == <<kind, arg>>
Kinds(p) == {log[p][i][1] : i \in 1..Len(log[p])}
Count(p, kind) == Cardinality({i \in 1..Len(log[p]) : log[p][i][1] = kind})

\* ----------------------------------------------------------- mutex table
getRedfishServerEndpoint(p) == d[p].endpoint

MutexLocked(key) == \E h \in held : h[1] = key
\* redfishMutexKV.Lock(key): blocks while the key is locked
MutexLock(key, p) ==
    /\ ~MutexLocked(key)
    /\ held' = held \cup {<<key, p>>}
\* redfishMutexKV.Unlock(key)
MutexUnlock(key) == held' = {h \in held : h[1] # key}

\* ------------------------------------------------------- pure functions
\* a check that passes whatever the controller advertises
checkOperationApplyTimesAlways(optionToCheck, storageOperationApplyTimes) == TRUE

checkOperationApplyTimes(optionToCheck, storageOperationApplyTimes) ==
    \E i \in 1..Len(storageOperationApplyTimes) :
        optionToCheck = storageOperationApplyTimes[i]

\* getDrives: every (drive, name) pair that matches, in drive order
RECURSIVE matchNames(_, _)
matchNames(v, driveNames) ==
    IF driveNames = << >> THEN << >>
    ELSE (IF v = Head(driveNames) THEN <<v>> ELSE << >>)
             \o matchNames(v, Tail(driveNames))

RECURSIVE drivesToReturn(_, _)
drivesToReturn(drives, driveNames) ==
    IF drives = << >> THEN << >>
    ELSE matchNames(Head(drives), driveNames)
             \o drivesToReturn(Tail(drives), driveNames)

getDrives(drives, driveNames) ==
    LET r == drivesToReturn(drives, driveNames)
    IN  IF Len(driveNames) # Len(r)
        THEN [drives |-> << >>, err |-> TRUE]
        ELSE [drives |-> r, err |-> FALSE]

\* a lookup that takes the first volume whatever its name
getVolumeIDAnyName(volumes, volumeName) ==
    IF volumes = << >> THEN [volumeLink |-> "", err |-> TRUE]
    ELSE [volumeLink |-> Head(volumes)[2], err |-> FALSE]

\* getVolumeID: the first volume of that name
RECURSIVE getVolumeID(_, _)
getVolumeID(volumes, volumeName) ==
    IF volumes = << >> THEN [volumeLink |-> "", err |-> TRUE]
    ELSE IF Head(volumes)[1] = volumeName
         THEN [volumeLink |-> Head(volumes)[2], err |-> FALSE]
         ELSE getVolumeID(Tail(volumes), volumeName)

\* getDrives called on its own: any attached drives (by Name) and any
\* requested names
SeqsUpTo(S, n) == UNION {[1..k -> S] : k \in 0..n}
DriveNames == {"disk0", "disk1"}
RequestedNames == {"disk0", "disk1", "disk9"}
NoDrivesCall ==
    [drives |-> << >>, driveNames |-> << >>, called |-> FALSE,
     result |-> [drives |-> << >>, err |-> FALSE]]
DrivesCalls ==
    [drives : SeqsUpTo(DriveNames, MaxAttached),
     driveNames : SeqsUpTo(RequestedNames, MaxNames),
     called : {FALSE},
     result : {NoDrivesCall.result}]

\* the body sent by createVolume and by updateVolume: each key with the
\* attribute of the configuration its value is taken from
createVolumePayload ==
    {<<"VolumeType", "volume_type">>, <<"DisplayName", "volume_name">>,
     <<"Name", "volume_name">>, <<"ReadCachePolicy", "read_cache_policy">>,
     <<"WriteCachePolicy", "write_cache_policy">>,
     <<"CapacityBytes", "capacity_bytes">>,
     <<"OptimumIOSizeBytes", "optimum_io_size_bytes">>,
     <<"Oem.Dell.DellVolume.DiskCachePolicy", "disk_cache_policy">>,
     <<"@Redfish.OperationApplyTime", "settings_apply_time">>,
     <<"Drives", "drives">>}

\* the body of the create sent again by the update
updateVolumePayloadAsCreate == createVolumePayload

updateVolumePayload ==
    {<<"ReadCachePolicy", "read_cache_policy">>,
     <<"WriteCachePolicy", "write_cache_policy">>,
     <<"DisplayName", "volume_name">>,
     <<"Oem.Dell.DellVolume.DiskCachePolicy", "disk_cache_policy">>,
     <<"Name", "volume_name">>,
     <<"@Redfish.SettingsApplyTime.ApplyTime", "settings_apply_time">>}

\* A response of the client: a transport error, or a status and a Location
NoResponse == [err |-> FALSE, status |-> 0, location |-> NoLocation]
Responses(p) ==
    {[err |-> TRUE, status |-> 0, location |-> NoLocation]}
        \cup [err : {FALSE}, status : Statuses, location : Locations(p)]

\* createVolume without the test of the status code
createVolumeAnyStatus(response) ==
    IF response.err THEN [jobID |-> NoLocation, err |-> "TransportError"]
    ELSE IF Len(response.location) = 0
         THEN [jobID |-> NoLocation, err |-> "MissingJobLocation"]
         ELSE [jobID |-> response.location, err |-> ""]

createVolume(response) ==
    IF response.err THEN [jobID |-> NoLocation, err |-> "TransportError"]
    ELSE IF response.status # StatusAccepted
         THEN [jobID |-> NoLocation, err |-> "SubmissionRejected"]
         ELSE IF Len(response.location) = 0
              THEN [jobID |-> NoLocation, err |-> "MissingJobLocation"]
              ELSE [jobID |-> response.location, err |-> ""]

updateVolume(response) ==
    IF response.err THEN [jobID |-> NoLocation, err |-> "TransportError"]
    ELSE IF response.status # StatusAccepted
         THEN [jobID |-> NoLocation, err |-> "SubmissionRejected"]
         ELSE IF Len(response.location) = 0
              THEN [jobID |-> NoLocation, err |-> "MissingJobLocation"]
              ELSE [jobID |-> response.location, err |-> ""]

deleteVolume(response) ==
    IF response.err THEN [jobID |-> NoLocation, err |-> "TransportError"]
    ELSE IF response.status # StatusAccepted
         THEN [jobID |-> NoLocation, err |-> "SubmissionRejected"]
         ELSE IF Len(response.location) = 0
              THEN [jobID |-> NoLocation, err |-> "MissingJobLocation"]
              ELSE [jobID |-> response.location, err |-> ""]

\* ------------------------------------------------------------ the state
HandlersInit ==
    /\ pc = [p \in Procs |-> "idle"]
    /\ op = [p \in Procs |-> "none"]
    /\ d = [p \in Procs |->
              [endpoint |-> "e1", settings_apply_time |-> ImmediateApplyTime,
               drives |-> <<"disk0">>, id |-> ""]]
    /\ held = {}
    /\ deferKey = [p \in Procs |-> ""]
    /\ jobID = [p \in Procs |-> NoLocation]
    /\ diags = [p \in Procs |-> NoError]
    /\ log = [p \in Procs |-> << >>]
    /\ elapsed = [p \in Procs |-> [reset |-> 0, job |-> 0]]
    /\ operationApplyTimes = [p \in Procs |-> NotRetrieved]
    /\ res = [p \in Procs |-> NoResponse]
    /\ storageVolumes = [p \in Procs |-> << >>]
    /\ job = [p \in Procs |-> NoJob]
    /\ ctxDone = [p \in Procs |-> FALSE]

Init == HandlersInit /\ drivesCall = NoDrivesCall

Goto(p, where) == pc' = [pc EXCEPT ![p] = where]
Send(p, req) == log' = [log EXCEPT ![p] = Append(@, req)]
HasError(p) == diags[p] # NoError

\* an Unlock at the end of the function in place of the deferred one
DeferredUnlockOnSuccess(p, result) ==
    IF result # NoError THEN UNCHANGED held ELSE MutexUnlock(deferKey[p])

\* defer redfishMutexKV.Unlock(...): runs as the function returns `result`
DeferredUnlock(p, result) == MutexUnlock(deferKey[p])

\* a caller that reads the volume after every update
AfterReturnAlwaysRead(p, result) ==
    IF op[p] = "update" THEN "u_refresh" ELSE "done"

\* Where the caller of the mutation goes on: resourceRedfishStorageVolumeUpdate
\* reads the volume after an update without error.
AfterReturn(p, result) ==
    IF op[p] = "update" /\ result = NoError THEN "u_refresh" ELSE "done"

\* return result, from inside a mutation
Return(p, result) ==
    /\ diags' = [diags EXCEPT ![p] = result]
    /\ DeferredUnlock(p, result)
    /\ Goto(p, AfterReturn(p, result))

\* The step ends with `result`: the function returns it (where = "return"),
\* or it is no error and the function goes on at `where`.
Proceed(p, where, result) ==
    IF where = "return"
    THEN Return(p, result)
    ELSE /\ Goto(p, where)
         /\ diags' = [diags EXCEPT ![p] = result]
         /\ UNCHANGED held

\* ------------------------------------------- the four resource handlers
Ops == {"create", "update", "delete", "read"}
Entry(o) ==
    CASE o = "create" -> "c_lock"
      [] o = "update" -> "u_lock"
      [] o = "delete" -> "d_lock"
      [] o = "read" -> "r_get"

\* Terraform calls CreateContext, ReadContext, UpdateContext or
\* DeleteContext; NewConfig builds the client or fails.
Start(p) ==
    /\ pc[p] = "idle"
    /\ \E o \in Ops, e \in Endpoints, a \in ApplyTimes, dr \in DriveLists,
          cfgOk \in BOOLEAN :
        /\ o \in {"delete", "read"} => dr = <<"disk0">>
        /\ o = "read" => a = ImmediateApplyTime
        /\ op' = [op EXCEPT ![p] = o]
        /\ d' = [d EXCEPT ![p] =
                   [endpoint |-> e, settings_apply_time |-> a, drives |-> dr,
                    id |-> IF o = "create" THEN "" ELSE ExistingVolume]]
        /\ Goto(p, IF cfgOk THEN Entry(o) ELSE "done")
        /\ diags' = [diags EXCEPT
                        ![p] = IF cfgOk THEN NoError ELSE <<"ConfigError">>]
    /\ UNCHANGED <<held, deferKey, jobID, log, elapsed, operationApplyTimes, res,
                 storageVolumes, job, ctxDone, drivesCall>>

\* the conversion without its test for a nil entry
CheckDriveNamesRawNoBlankTest(p, okpc) ==
    IF Len(d[p].drives) = 0
    THEN Return(p, <<"DrivesEmpty">>)
    ELSE Proceed(p, okpc, NoError)

\* Convert from []interface{} to []string
CheckDriveNamesRaw(p, okpc) ==
    LET driveNamesRaw == d[p].drives
    IN  IF Len(driveNamesRaw) = 0
        THEN Return(p, <<"DrivesEmpty">>)
        ELSE IF \E i \in 1..Len(driveNamesRaw) : driveNamesRaw[i] = Nil
             THEN Return(p, <<"DriveBlank">>)
             ELSE Proceed(p, okpc, NoError)

\* service.Systems(), systems[0].Storage(), getStorageController
GetStorage(p, okpc) ==
    \E outcome \in {"SystemsError", "StorageError", "ControllerNotFound", "ok"} :
        /\ log' = [log EXCEPT ![p] =
                     IF outcome = "SystemsError"
                     THEN Append(@, Req("GetSystems", ""))
                     ELSE @ \o <<Req("GetSystems", ""), Req("GetStorage", "")>>]
        /\ IF outcome = "ok"
           THEN Proceed(p, okpc, NoError)
           ELSE Return(p, <<outcome>>)

\* Check if settings_apply_time is doable on this controller
CheckApplyTime(p, okpc) ==
    /\ Send(p, Req("GetApplyTimes", ""))
    /\ \E err \in BOOLEAN, times \in OperationApplyTimeLists :
        IF err
        THEN /\ Return(p, <<"ApplyTimesError">>)
             /\ UNCHANGED operationApplyTimes
        ELSE /\ operationApplyTimes' =
                    [operationApplyTimes EXCEPT
                        ![p] = [retrieved |-> TRUE, values |-> times]]
             /\ IF ~checkOperationApplyTimes(d[p].settings_apply_time, times)
                THEN Return(p, <<"CapabilityUnsupported", StorageID,
                                 d[p].settings_apply_time>>)
                ELSE Proceed(p, okpc, NoError)

\* ------------------------------------------- PowerOperation (not in src/)
\* Requests the power operation on the host.
PowerOperationRequest(p, waitpc, onError) ==
    /\ Send(p, Req("SetPower", "ForceRestart"))
    /\ \E accepted \in BOOLEAN :
        IF accepted
        THEN Proceed(p, waitpc, NoError)
        ELSE Proceed(p, onError, <<"ResetError">>)
    /\ UNCHANGED elapsed

\* Sleeps one interval, gives up once reset_timeout has elapsed, else asks
\* the host for its power state.
PowerOperationWait(p, okpc, onError) ==
    /\ elapsed' = [elapsed EXCEPT ![p].reset = @ + 1]
    /\ IF elapsed[p].reset + 1 > ResetTimeoutTicks
       THEN Proceed(p, onError, <<"ResetError">>) /\ UNCHANGED log
       ELSE /\ Send(p, Req("GetPower", ""))
            /\ \E reached \in BOOLEAN :
                 Proceed(p, IF reached THEN okpc ELSE pc[p], NoError)

\* ------------------------------------------- the callers' use of the job
\* an error that leaves out the cause WaitForJobToFinish gave
createJobErrorNoCause(p, err) == <<"JobError", jobID[p], err[1], "">>

\* diag.Errorf("Error, job %s wasn't able to complete: %s", jobID, err)
createJobError(p, err) == <<"JobError", jobID[p]>> \o err
updateJobError(p, err) == <<"JobError", jobID[p]>> \o err
\* diag.Errorf("Error, timeout reached when waiting for job %s to finish. %s",
\*             jobID, err)
deleteJobError(p, err) == <<"JobTimeoutError", jobID[p]>> \o err

JobErrorDiag(p, err) ==
    CASE op[p] = "create" -> createJobError(p, err)
      [] op[p] = "update" -> updateJobError(p, err)
      [] op[p] = "delete" -> deleteJobError(p, err)

\* --------------------------------- common.WaitForJobToFinish (not in src/)
\* Sleeps one interval, declares the timeout once `timeout` has elapsed
\* since the wait began, else GETs the job resource; a failed job gives an
\* error with the message of the job.
WaitForJobToFinish(p, timeout, onDone, onError) ==
    /\ elapsed' = [elapsed EXCEPT ![p].job = @ + 1]
    /\ IF elapsed[p].job + 1 > timeout
       THEN /\ job' = [job EXCEPT ![p] = [state |-> "TimedOut", message |-> ""]]
            /\ Proceed(p, onError, JobErrorDiag(p, <<"JobTimedOut", "">>))
            /\ UNCHANGED log
       ELSE /\ Send(p, Req("GetJob", jobID[p]))
            /\ \E state \in JobStates :
                 CASE state = "Running" ->
                        /\ job' = [job EXCEPT ![p] = [state |-> state, message |-> ""]]
                        /\ Proceed(p, pc[p], NoError)
                   [] state = "Completed" ->
                        /\ job' = [job EXCEPT ![p] = [state |-> state, message |-> ""]]
                        /\ Proceed(p, onDone, NoError)
                   [] state = "Failed" ->
                        \E message \in JobMessages :
                            /\ job' = [job EXCEPT
                                          ![p] = [state |-> state, message |-> message]]
                            /\ Proceed(p, onError,
                                       JobErrorDiag(p, <<"JobFailed", message>>))

\* ----------------------------------------------- readRedfishStorageVolume
\* Sets the diagnostics it returns and, on 404, clears the Id
GetVolumeOutcomes == {"ok", "NotRedfishError", "404", "500"}

\* a read that clears the Id whenever the GET fails, and one for which a
\* missing volume is an error
readVolumeResultClearsOnError(outcome, id) ==
    CASE outcome = "ok" -> [diags |-> NoError, id |-> id]
      [] outcome = "NotRedfishError" -> [diags |-> <<"APIError">>, id |-> ""]
      [] outcome = "404" -> [diags |-> NoError, id |-> ""]
      [] outcome = "500" -> [diags |-> <<"StatusError", outcome>>, id |-> ""]
readVolumeResultNotFoundIsError(outcome, id) ==
    CASE outcome = "ok" -> [diags |-> NoError, id |-> id]
      [] outcome = "NotRedfishError" -> [diags |-> <<"APIError">>, id |-> id]
      [] outcome = "404" -> [diags |-> <<"StatusError", outcome>>, id |-> id]
      [] outcome = "500" -> [diags |-> <<"StatusError", outcome>>, id |-> id]

\* what readRedfishStorageVolume returns and the Id it leaves, for each
\* outcome of redfish.GetVolume
readVolumeResult(outcome, id) ==
    CASE outcome = "ok" -> [diags |-> NoError, id |-> id]
      [] outcome = "NotRedfishError" -> [diags |-> <<"APIError">>, id |-> id]
      [] outcome = "404" -> [diags |-> NoError, id |-> ""]
      [] outcome = "500" -> [diags |-> <<"StatusError", outcome>>, id |-> id]

readRedfishStorageVolume(p) ==
    \E outcome \in GetVolumeOutcomes :
        LET r == readVolumeResult(outcome, d[p].id)
        IN  /\ Send(p, Req("GetVolume", d[p].id) \o <<outcome>>)
            /\ diags' = [diags EXCEPT ![p] = r.diags]
            /\ d' = [d EXCEPT ![p].id = r.id]

\* ------------------------------------------- createRedfishStorageVolume
\* one key for every server, and a key that is not the one locked
createLockKeyGlobal(p) == "redfish"
createUnlockKeyByController(p) == StorageID

createLockKey(p) == getRedfishServerEndpoint(p)
createUnlockKey(p) == getRedfishServerEndpoint(p)

CreateLock(p) ==
    /\ pc[p] = "c_lock"
    /\ MutexLock(createLockKey(p), p)
    /\ deferKey' = [deferKey EXCEPT ![p] = createUnlockKey(p)]
    /\ Goto(p, "c_config")
    /\ UNCHANGED <<op, d, jobID, diags, log, elapsed, operationApplyTimes, res,
                 storageVolumes, job, ctxDone, drivesCall>>

CreateGetConfig(p) ==
    /\ pc[p] = "c_config"
    /\ CheckDriveNamesRaw(p, "c_storage")
    /\ UNCHANGED <<op, d, deferKey, jobID, log, elapsed, operationApplyTimes, res,
                 storageVolumes, job, ctxDone, drivesCall>>

CreateGetStorage(p) ==
    /\ pc[p] = "c_storage"
    /\ GetStorage(p, "c_applytime")
    /\ UNCHANGED <<op, d, deferKey, jobID, elapsed, operationApplyTimes, res,
                 storageVolumes, job, ctxDone, drivesCall>>

CreateCheckApplyTime(p) ==
    /\ pc[p] = "c_applytime"
    /\ CheckApplyTime(p, "c_drives")
    /\ UNCHANGED <<op, d, deferKey, jobID, elapsed, res,
                 storageVolumes, job, ctxDone, drivesCall>>

CreateGetDrives(p) ==
    /\ pc[p] = "c_drives"
    /\ Send(p, Req("GetDrives", ""))
    /\ \E err \in BOOLEAN, allStorageDrives \in AttachedDrives :
        IF err
        THEN Return(p, <<"DrivesError">>)
        ELSE IF getDrives(allStorageDrives, d[p].drives).err
             THEN Return(p, <<"DrivesNotFound">>)
             ELSE Proceed(p, "c_submit", NoError)
    /\ UNCHANGED <<op, d, deferKey, jobID, elapsed, operationApplyTimes, res,
                 storageVolumes, job, ctxDone, drivesCall>>

\* a failed submission sent again, a failed reset passed over
createVolumeOnErrorRetry(p) == "c_submit"
createOnResetErrorContinue(p) == "c_job"

\* a reset whatever the apply time
createResetsAlways(p) == TRUE

\* switch applyTime.(string): the OnReset case
createResets(p) == d[p].settings_apply_time = OnResetApplyTime

\* if err != nil { return diag.Errorf(...) } after createVolume
createVolumeOnError(p) == "return"

\* if diags.HasError() { return diag.Errorf(...) } after PowerOperation
createOnResetError(p) == "return"

\* a job error passed over, and a job timeout less the time of the reset
createOnJobErrorContinue(p) == "c_volumes"
createJobTimeoutLessReset(p) == JobTimeoutTicks - elapsed[p].reset

\* after the switch: common.WaitForJobToFinish(service, jobID,
\* intervalStorageVolumeJobCheckTime, volumeJobTimeout.(int))
createAfterReset(p) == "c_job"
createJobTimeout(p) == JobTimeoutTicks
\* if err != nil { return diag.Errorf(...) } after WaitForJobToFinish
createOnJobError(p) == "return"

CreateSubmit(p) ==
    /\ pc[p] = "c_submit"
    /\ Send(p, Req("Post", "Volumes") \o <<createVolumePayload>>)
    /\ \E response \in Responses(p) :
        LET r == createVolume(response)
        IN  /\ res' = [res EXCEPT ![p] = response]
            /\ IF r.err # ""
               THEN /\ Proceed(p, createVolumeOnError(p), <<"CreateVolumeError", StorageID, r.err>>)
                    /\ UNCHANGED jobID
               ELSE /\ jobID' = [jobID EXCEPT ![p] = r.jobID]
                    /\ Proceed(p, IF createResets(p) THEN "c_power" ELSE "c_job",
                               NoError)
    /\ UNCHANGED <<op, d, deferKey, elapsed, operationApplyTimes,
                 storageVolumes, job, ctxDone, drivesCall>>

CreateReset(p) ==
    /\ \/ /\ pc[p] = "c_power"
          /\ PowerOperationRequest(p, "c_power_wait", createOnResetError(p))
       \/ /\ pc[p] = "c_power_wait"
          /\ PowerOperationWait(p, createAfterReset(p), createOnResetError(p))
    /\ UNCHANGED <<op, d, deferKey, jobID, operationApplyTimes, res,
                 storageVolumes, job, ctxDone, drivesCall>>

CreateWaitJob(p) ==
    /\ pc[p] = "c_job"
    /\ WaitForJobToFinish(p, createJobTimeout(p), "c_volumes", createOnJobError(p))
    /\ UNCHANGED <<op, d, deferKey, jobID, operationApplyTimes, res,
                 storageVolumes, ctxDone, drivesCall>>

CreateGetVolumeID(p) ==
    /\ pc[p] = "c_volumes"
    /\ Send(p, Req("GetVolumes", ""))
    /\ \E err \in BOOLEAN, vols \in VolumeLists :
        IF err
        THEN Return(p, <<"VolumesError">>) /\ UNCHANGED <<d, storageVolumes>>
        ELSE LET r == getVolumeID(vols, VolumeName)
             IN  /\ storageVolumes' = [storageVolumes EXCEPT ![p] = vols]
                 /\ IF r.err
                    THEN /\ Return(p, <<"VolumeNotFound", VolumeName, StorageID>>)
                         /\ UNCHANGED d
                    ELSE /\ d' = [d EXCEPT ![p].id = r.volumeLink]
                         /\ Proceed(p, "c_read", NoError)
    /\ UNCHANGED <<op, deferKey, jobID, elapsed, operationApplyTimes, res,
                 job, ctxDone, drivesCall>>

\* diags = readRedfishStorageVolume(service, d); return diags
CreateRead(p) ==
    /\ pc[p] = "c_read"
    /\ readRedfishStorageVolume(p)
    /\ DeferredUnlock(p, diags'[p])
    /\ Goto(p, AfterReturn(p, diags'[p]))
    /\ UNCHANGED <<op, deferKey, jobID, elapsed, operationApplyTimes, res,
                 storageVolumes, job, ctxDone, drivesCall>>

\* ------------------------------------------- updateRedfishStorageVolume
updateLockKey(p) == getRedfishServerEndpoint(p)
updateUnlockKey(p) == getRedfishServerEndpoint(p)

UpdateLock(p) ==
    /\ pc[p] = "u_lock"
    /\ MutexLock(updateLockKey(p), p)
    /\ deferKey' = [deferKey EXCEPT ![p] = updateUnlockKey(p)]
    /\ Goto(p, "u_config")
    /\ UNCHANGED <<op, d, jobID, diags, log, elapsed, operationApplyTimes, res,
                 storageVolumes, job, ctxDone, drivesCall>>

UpdateGetConfig(p) ==
    /\ pc[p] = "u_config"
    /\ CheckDriveNamesRaw(p, "u_storage")
    /\ UNCHANGED <<op, d, deferKey, jobID, log, elapsed, operationApplyTimes, res,
                 storageVolumes, job, ctxDone, drivesCall>>

UpdateGetStorage(p) ==
    /\ pc[p] = "u_storage"
    /\ GetStorage(p, "u_applytime")
    /\ UNCHANGED <<op, d, deferKey, jobID, elapsed, operationApplyTimes, res,
                 storageVolumes, job, ctxDone, drivesCall>>

UpdateCheckApplyTime(p) ==
    /\ pc[p] = "u_applytime"
    /\ CheckApplyTime(p, "u_submit")
    /\ UNCHANGED <<op, d, deferKey, jobID, elapsed, res,
                 storageVolumes, job, ctxDone, drivesCall>>

\* a switch without its case
updateResetsAlways(p) == TRUE

updateResets(p) == d[p].settings_apply_time = OnResetApplyTime

\* errors of the submission and of the reset passed over
updateVolumeOnErrorContinue(p) == "u_job"
updateOnResetErrorPoll(p) == "u_job"

\* if err != nil { return diag.Errorf(...) } after updateVolume
updateVolumeOnError(p) == "return"

\* if diags.HasError() { return diag.Errorf(...) } after PowerOperation
updateOnResetError(p) == "return"

\* the time left of a deadline that began at the submission, and a failed
\* wait begun again
updateJobTimeoutSinceSubmission(p) == JobTimeoutTicks - elapsed[p].reset
updateOnJobErrorAgain(p) == "u_job"

updateAfterReset(p) == "u_job"
updateJobTimeout(p) == JobTimeoutTicks
updateOnJobError(p) == "return"

UpdateSubmit(p) ==
    /\ pc[p] = "u_submit"
    /\ Send(p, Req("Patch", "Settings") \o <<updateVolumePayload>>)
    /\ \E response \in Responses(p) :
        LET r == updateVolume(response)
        IN  /\ res' = [res EXCEPT ![p] = response]
            /\ IF r.err # ""
               THEN /\ Proceed(p, updateVolumeOnError(p), <<"UpdateVolumeError", StorageID, r.err>>)
                    /\ UNCHANGED jobID
               ELSE /\ jobID' = [jobID EXCEPT ![p] = r.jobID]
                    /\ Proceed(p, IF updateResets(p) THEN "u_power" ELSE "u_job",
                               NoError)
    /\ UNCHANGED <<op, d, deferKey, elapsed, operationApplyTimes,
                 storageVolumes, job, ctxDone, drivesCall>>

UpdateReset(p) ==
    /\ \/ /\ pc[p] = "u_power"
          /\ PowerOperationRequest(p, "u_power_wait", updateOnResetError(p))
       \/ /\ pc[p] = "u_power_wait"
          /\ PowerOperationWait(p, updateAfterReset(p), updateOnResetError(p))
    /\ UNCHANGED <<op, d, deferKey, jobID, operationApplyTimes, res,
                 storageVolumes, job, ctxDone, drivesCall>>

UpdateWaitJob(p) ==
    /\ pc[p] = "u_job"
    /\ WaitForJobToFinish(p, updateJobTimeout(p), "return", updateOnJobError(p))
    /\ UNCHANGED <<op, d, deferKey, jobID, operationApplyTimes, res,
                 storageVolumes, ctxDone, drivesCall>>

\* resourceRedfishStorageVolumeUpdate: the read that follows an update
\* without error
UpdateRefresh(p) ==
    /\ pc[p] = "u_refresh"
    /\ \E cfgOk \in BOOLEAN :
        IF cfgOk
        THEN readRedfishStorageVolume(p)
        ELSE /\ diags' = [diags EXCEPT ![p] = <<"ConfigError">>]
             /\ UNCHANGED <<d, log>>
    /\ Goto(p, "done")
    /\ UNCHANGED <<op, held, deferKey, jobID, elapsed, operationApplyTimes, res,
                 storageVolumes, job, ctxDone, drivesCall>>

\* ------------------------------------------- deleteRedfishStorageVolume
\* the volume as the key
deleteLockKeyByVolume(p) == d[p].id

deleteLockKey(p) == getRedfishServerEndpoint(p)
deleteUnlockKey(p) == getRedfishServerEndpoint(p)

DeleteLock(p) ==
    /\ pc[p] = "d_lock"
    /\ MutexLock(deleteLockKey(p), p)
    /\ deferKey' = [deferKey EXCEPT ![p] = deleteUnlockKey(p)]
    /\ Goto(p, "d_submit")
    /\ UNCHANGED <<op, d, jobID, diags, log, elapsed, operationApplyTimes, res,
                 storageVolumes, job, ctxDone, drivesCall>>

deleteResets(p) == d[p].settings_apply_time = OnResetApplyTime

\* the job waited for though the submission failed
deleteVolumeOnErrorPoll(p) == "d_job"

\* if err != nil { return diag.Errorf(...) } after deleteVolume
deleteVolumeOnError(p) == "return"

\* if diags.HasError() { return diag.Errorf(...) } after PowerOperation
deleteOnResetError(p) == "return"

\* a return at the end of the OnReset case, and a timeout in another unit
deleteAfterResetReturn(p) == "return"
deleteJobTimeoutDoubled(p) == 2 * JobTimeoutTicks

deleteAfterReset(p) == "d_job"
deleteJobTimeout(p) == JobTimeoutTicks
deleteOnJobError(p) == "return"

DeleteSubmit(p) ==
    /\ pc[p] = "d_submit"
    /\ Send(p, Req("Delete", d[p].id))
    /\ \E response \in Responses(p) :
        LET r == deleteVolume(response)
        IN  /\ res' = [res EXCEPT ![p] = response]
            /\ IF r.err # ""
               THEN /\ Proceed(p, deleteVolumeOnError(p), <<"DeleteVolumeError", d[p].id, r.err>>)
                    /\ UNCHANGED jobID
               ELSE /\ jobID' = [jobID EXCEPT ![p] = r.jobID]
                    /\ Proceed(p, IF deleteResets(p) THEN "d_power" ELSE "d_job",
                               NoError)
    /\ UNCHANGED <<op, d, deferKey, elapsed, operationApplyTimes,
                 storageVolumes, job, ctxDone, drivesCall>>

DeleteReset(p) ==
    /\ \/ /\ pc[p] = "d_power"
          /\ PowerOperationRequest(p, "d_power_wait", deleteOnResetError(p))
       \/ /\ pc[p] = "d_power_wait"
          /\ PowerOperationWait(p, deleteAfterReset(p), deleteOnResetError(p))
    /\ UNCHANGED <<op, d, deferKey, jobID, operationApplyTimes, res,
                 storageVolumes, job, ctxDone, drivesCall>>

DeleteWaitJob(p) ==
    /\ pc[p] = "d_job"
    /\ WaitForJobToFinish(p, deleteJobTimeout(p), "return", deleteOnJobError(p))
    /\ UNCHANGED <<op, d, deferKey, jobID, operationApplyTimes, res,
                 storageVolumes, ctxDone, drivesCall>>

\* --------------------------------------- resourceRedfishStorageVolumeRead
ReadVolume(p) ==
    /\ pc[p] = "r_get"
    /\ readRedfishStorageVolume(p)
    /\ Goto(p, "done")
    /\ UNCHANGED <<op, held, deferKey, jobID, elapsed, operationApplyTimes, res,
                 storageVolumes, job, ctxDone, drivesCall>>

\* ------------------------------------------------------ the specification
Create(p) ==
    \/ CreateLock(p) \/ CreateGetConfig(p) \/ CreateGetStorage(p)
    \/ CreateCheckApplyTime(p) \/ CreateGetDrives(p) \/ CreateSubmit(p)
    \/ CreateReset(p) \/ CreateWaitJob(p) \/ CreateGetVolumeID(p)
    \/ CreateRead(p)

Update(p) ==
    \/ UpdateLock(p) \/ UpdateGetConfig(p) \/ UpdateGetStorage(p)
    \/ UpdateCheckApplyTime(p) \/ UpdateSubmit(p) \/ UpdateReset(p)
    \/ UpdateWaitJob(p) \/ UpdateRefresh(p)

Delete(p) ==
    \/ DeleteLock(p) \/ DeleteSubmit(p) \/ DeleteReset(p) \/ DeleteWaitJob(p)

Step(p) == Create(p) \/ Update(p) \/ Delete(p) \/ ReadVolume(p)

Next == \E p \in Procs : Start(p) \/ Step(p)

Spec == Init /\ [][Next]_vars

\* Each call that has started goes on running: every controller call returns
\* and the scheduler leaves no runnable goroutine behind.
FairSpec == Spec /\ \A p \in Procs : WF_vars(Step(p))

\* Terraform cancels the ctx it gave the handler (provider teardown) while
\* the call waits for its job. No handler reads ctx: create and delete do not
\* receive it, update receives it and does not use it.
Cancel(p) ==
    /\ pc[p] \in {"c_job", "u_job", "d_job"}
    /\ ~ctxDone[p]
    /\ ctxDone' = [ctxDone EXCEPT ![p] = TRUE]
    /\ UNCHANGED <<pc, op, d, held, deferKey, jobID, diags, log, elapsed,
                   operationApplyTimes, res, storageVolumes, job, drivesCall>>

CancelNext == Next \/ \E p \in Procs : Cancel(p)

\* the handlers with cancellation of their contexts
CancelSpec == Init /\ [][CancelNext]_vars

\* getDrives(drives, driveNames) called on its own
GetDrivesCall ==
    /\ ~drivesCall.called
    /\ drivesCall' =
          [drivesCall EXCEPT
              !.called = TRUE,
              !.result = getDrives(drivesCall.drives, drivesCall.driveNames)]
    /\ UNCHANGED <<pc, op, d, held, deferKey, jobID, diags, log, elapsed,
                   operationApplyTimes, res, storageVolumes, job, ctxDone>>

DrivesInit == HandlersInit /\ drivesCall \in DrivesCalls

DrivesSpec == DrivesInit /\ [][GetDrivesCall]_vars

\* ------------------------------------------------------------ properties
Mutations == {"create", "update", "delete"}
LockPcs == {"c_lock", "u_lock", "d_lock"}
PowerPcs == {"c_power", "u_power", "d_power"}
PowerWaitPcs == {"c_power_wait", "u_power_wait", "d_power_wait"}
JobPcs == {"c_job", "u_job", "d_job"}
\* between the return of Lock and the deferred Unlock
InFlightPcs ==
    {"c_config", "c_storage", "c_applytime", "c_drives", "c_submit",
     "c_volumes", "c_read",
     "u_config", "u_storage", "u_applytime", "u_submit", "d_submit"}
        \cup PowerPcs \cup PowerWaitPcs \cup JobPcs
InFlight(p) == pc[p] \in InFlightPcs
\* the mutation function has returned
Returned(p) == op[p] \in Mutations /\ pc[p] \in {"done", "u_refresh"}
ErrKind(p) == IF diags[p] = NoError THEN "" ELSE diags[p][1]
SubmitKinds == {"Post", "Patch", "Delete"}
SubmitErrors == {"CreateVolumeError", "UpdateVolumeError", "DeleteVolumeError"}
Advertised(p) ==
    {operationApplyTimes[p].values[i] :
        i \in 1..Len(operationApplyTimes[p].values)}
LastKind(p) == log[p][Len(log[p])][1]
LockStep(p) == CreateLock(p) \/ UpdateLock(p) \/ DeleteLock(p)
\* the GETs of the job resource among the requests of a call
RECURSIVE JobPolls(_)
JobPolls(requests) ==
    IF requests = << >> THEN << >>
    ELSE (IF Head(requests)[1] = "GetJob" THEN <<Head(requests)>> ELSE << >>)
             \o JobPolls(Tail(requests))
TerminalJobStates == {"Completed", "Failed", "TimedOut"}
\* the error of the job wait, as the handlers word it
JobErrors == {"JobError", "JobTimeoutError"}
\* the volumes of that name in a collection
Matches(vols, name) == {i \in 1..Len(vols) : vols[i][1] = name}

\* C1: two mutations against the same endpoint are never both inside their
\* in-flight window (from the return of Lock to the deferred Unlock).
C1_NoOverlapPerEndpoint ==
    \A p, q \in Procs :
        (p # q /\ InFlight(p) /\ InFlight(q)) => d[p].endpoint # d[q].endpoint

\* a delete polls its job while a create on the same endpoint waits for the lock
C1_Witness ==
    \E p, q \in Procs :
        /\ p # q /\ d[p].endpoint = d[q].endpoint
        /\ pc[p] = "d_job" /\ elapsed[p].job = 1
        /\ pc[q] = "c_lock"

\* C2: a mutation that has returned, on whatever exit path, holds no lock;
\* while it runs, the key given to the deferred Unlock is the key it holds,
\* the endpoint of its server.
C2_LockReleasedOnReturn ==
    \A p \in Procs :
        /\ Returned(p) => \A h \in held : h[2] # p
        /\ InFlight(p) =>
             /\ <<deferKey[p], p>> \in held
             /\ deferKey[p] = d[p].endpoint
             /\ \A h \in held : h[2] = p => h[1] = deferKey[p]

\* an update has returned after its job timed out, and its endpoint is free
C2_Witness ==
    \E p \in Procs :
        /\ op[p] = "update" /\ pc[p] = "done"
        /\ ErrKind(p) = "JobError" /\ diags[p][3] = "JobTimedOut"
        /\ ~MutexLocked(d[p].endpoint)

\* C3: under fair scheduling a mutation that waits for the lock of its
\* endpoint, or holds it, eventually has returned with the lock released; it
\* returns only through the lock, so a waiting mutation acquires it.
C3_WaiterAcquires ==
    \A p \in Procs :
        (pc[p] \in LockPcs \cup InFlightPcs)
            ~> (Returned(p) /\ \A h \in held : h[2] # p)

\* a create waits for the lock held by an update that waits for the reset
C3_Witness ==
    \E p, q \in Procs :
        /\ p # q /\ d[p].endpoint = d[q].endpoint
        /\ pc[p] = "u_power_wait" /\ "GetPower" \in Kinds(p)
        /\ pc[q] = "c_lock"

\* C4: a mutation waiting for the lock of an endpoint on which no mutation is
\* in flight can take it, whatever is held on other endpoints, and a mutation
\* in flight can always take its next step.
C4_EndpointsIndependent ==
    \A q \in Procs :
        /\ (/\ pc[q] \in LockPcs
            /\ \A p \in Procs \ {q} :
                  InFlight(p) => d[p].endpoint # d[q].endpoint)
             => ENABLED LockStep(q)
        /\ InFlight(q) => ENABLED Step(q)

\* a create in its reset wait on one endpoint, a delete polling its job on
\* the other
C4_Witness ==
    \E p, q \in Procs :
        /\ d[p].endpoint # d[q].endpoint
        /\ pc[p] = "c_power_wait"
        /\ pc[q] = "d_job" /\ elapsed[q].job = 1

\* C5: a create or update whose settings_apply_time is not among the values
\* retrieved from the controller returns the capability error, naming the
\* controller and the policy, and its last request is the capability query:
\* no POST, PATCH, power operation or job poll.
C5_CapabilityRejects ==
    \A p \in Procs :
        /\ (/\ op[p] \in {"create", "update"}
            /\ operationApplyTimes[p].retrieved
            /\ d[p].settings_apply_time \notin Advertised(p))
             => /\ pc[p] = "done"
                /\ diags[p] = <<"CapabilityUnsupported", StorageID,
                                d[p].settings_apply_time>>
        /\ ErrKind(p) = "CapabilityUnsupported"
             => /\ pc[p] = "done"
                /\ LastKind(p) = "GetApplyTimes"
                /\ Kinds(p) \cap (SubmitKinds \cup {"SetPower", "GetPower", "GetJob"}) = {}

\* a create asked for OnReset and the controller advertises Immediate only
C5_Witness ==
    \E p \in Procs :
        /\ op[p] = "create" /\ pc[p] = "done"
        /\ d[p].settings_apply_time = OnResetApplyTime
        /\ operationApplyTimes[p] =
              [retrieved |-> TRUE, values |-> <<ImmediateApplyTime>>]

\* C6: every DELETE request is preceded, in the same delete, by the query of
\* the apply-time values the controller advertises (the claim as stated).
C6_DeleteGatedByCapability ==
    \A p \in Procs :
        (op[p] = "delete" /\ "Delete" \in Kinds(p))
            => "GetApplyTimes" \in Kinds(p)

\* C7: after a POST, PATCH or DELETE the mutation has a job handle if and
\* only if the response was 202 with a non-empty Location, and the handle is
\* that Location; otherwise it returns the error of its case (transport,
\* rejected, missing location) without a power operation or a job poll.
C7_JobHandleIffAccepted ==
    \A p \in Procs :
        /\ res[p] # NoResponse =>
             LET accepted == /\ ~res[p].err
                             /\ res[p].status = StatusAccepted
                             /\ res[p].location # NoLocation
                 expected == IF res[p].err THEN "TransportError"
                             ELSE IF res[p].status # StatusAccepted
                                  THEN "SubmissionRejected"
                                  ELSE "MissingJobLocation"
             IN  /\ (jobID[p] # NoLocation) <=> accepted
                 /\ accepted => /\ jobID[p] = res[p].location
                                /\ ErrKind(p) \notin SubmitErrors
                 /\ ~accepted => /\ pc[p] = "done"
                                 /\ ErrKind(p) \in SubmitErrors
                                 /\ diags[p][3] = expected
        /\ ErrKind(p) \in SubmitErrors =>
             /\ jobID[p] = NoLocation
             /\ LastKind(p) \in SubmitKinds
             /\ Kinds(p) \cap {"SetPower", "GetPower", "GetJob"} = {}

\* a delete was answered 202 without a Location
C7_Witness ==
    \E p \in Procs :
        /\ op[p] = "delete" /\ pc[p] = "done"
        /\ res[p] = [err |-> FALSE, status |-> StatusAccepted,
                     location |-> NoLocation]

\* C8: one run of create, update or delete sends its mutation request at
\* most once.
C8_SubmittedAtMostOnce ==
    \A p \in Procs :
        Count(p, "Post") + Count(p, "Patch") + Count(p, "Delete") <= 1

\* a create has returned after its POST was rejected
C8_Witness ==
    \E p \in Procs :
        /\ pc[p] = "done" /\ ErrKind(p) = "CreateVolumeError"
        /\ diags[p][3] = "SubmissionRejected"
        /\ Count(p, "Post") = 1

\* C9: a mutation requests the power operation, once, exactly when its policy
\* is OnReset and its submission produced a job; with Immediate it never does.
C9_PowerOnlyOnReset ==
    \A p \in Procs :
        LET due == /\ d[p].settings_apply_time = OnResetApplyTime
                   /\ jobID[p] # NoLocation
        IN  /\ Count(p, "SetPower") <= 1
            /\ pc[p] \in PowerPcs => due /\ "SetPower" \notin Kinds(p)
            /\ pc[p] \notin PowerPcs => ("SetPower" \in Kinds(p) <=> due)
            /\ d[p].settings_apply_time = ImmediateApplyTime
                 => Kinds(p) \cap {"SetPower", "GetPower"} = {}

\* an Immediate update has finished its job, an OnReset delete has reset
C9_Witness ==
    \E p, q \in Procs :
        /\ op[p] = "update" /\ pc[p] = "done" /\ ~HasError(p)
        /\ d[p].settings_apply_time = ImmediateApplyTime /\ "GetJob" \in Kinds(p)
        /\ op[q] = "delete" /\ pc[q] = "d_job" /\ "SetPower" \in Kinds(q)

\* C10: when the reset fails or times out the mutation returns an error with
\* the power operation as its last request: no job poll, no request about
\* the submitted job, no volume lookup, and the resource ID is left as it was.
C10_ResetFailureAborts ==
    \A p \in Procs :
        ErrKind(p) = "ResetError" =>
            /\ pc[p] = "done"
            /\ jobID[p] # NoLocation
            /\ LastKind(p) \in {"SetPower", "GetPower"}
            /\ Kinds(p) \cap {"GetJob", "GetVolumes", "GetVolume"} = {}
            /\ d[p].id = (IF op[p] = "create" THEN "" ELSE ExistingVolume)

\* a create has returned after its reset timed out
C10_Witness ==
    \E p \in Procs :
        /\ op[p] = "create" /\ pc[p] = "done" /\ ErrKind(p) = "ResetError"
        /\ elapsed[p].reset > ResetTimeoutTicks
        /\ jobID[p] # NoLocation

\* the volumes collection has been retrieved by the create
VolumesRetrieved(p) == "GetVolumes" \in Kinds(p) /\ ErrKind(p) # "VolumesError"

\* C11: a mutation whose reset was requested and did not fail is waiting for
\* its job, about to send the first poll, or has polled the job: a reset
\* that succeeds never ends the mutation.
C11_ResetSuccessPollsJob ==
    \A p \in Procs :
        (/\ "SetPower" \in Kinds(p)
         /\ pc[p] \notin PowerWaitPcs
         /\ ErrKind(p) # "ResetError")
            => \/ /\ pc[p] \in JobPcs
                  /\ job[p].state = "None"
                  /\ elapsed[p].job = 0
               \/ "GetJob" \in Kinds(p)

\* after its reset a delete polled once and found the job already failed
C11_Witness ==
    \E p \in Procs :
        /\ op[p] = "delete" /\ "GetPower" \in Kinds(p)
        /\ Count(p, "GetJob") = 1 /\ job[p].state = "Failed"

\* C12: a job that ended Failed or TimedOut has made the mutation return the
\* job error, with no volumes query and the resource ID untouched; the
\* volumes are queried and the ID of a create is set only after Completed.
C12_OnlyCompletedResolves ==
    \A p \in Procs :
        /\ job[p].state \in {"Failed", "TimedOut"}
             => /\ pc[p] = "done"
                /\ ErrKind(p) \in JobErrors
                /\ Kinds(p) \cap {"GetVolumes", "GetVolume"} = {}
                /\ d[p].id = (IF op[p] = "create" THEN "" ELSE ExistingVolume)
        /\ ("GetVolumes" \in Kinds(p) \/ (op[p] = "create" /\ d[p].id # ""))
             => job[p].state = "Completed"

\* the job of a create failed at its second poll
C12_Witness ==
    \E p \in Procs :
        /\ op[p] = "create" /\ pc[p] = "done"
        /\ job[p].state = "Failed" /\ Count(p, "GetJob") = 2

\* C13: once the poller is in Completed, Failed or TimedOut, no step changes
\* its state or message and no step sends another GET of the job.
C13_TerminalJobAbsorbing ==
    [][\A p \in Procs :
          job[p].state \in TerminalJobStates
              => /\ job'[p] = job[p]
                 /\ JobPolls(log'[p]) = JobPolls(log[p])]_vars

\* a create goes on after its job completed at the second poll
C13_Witness ==
    \E p \in Procs :
        /\ op[p] = "create" /\ pc[p] = "c_read"
        /\ job[p].state = "Completed" /\ Count(p, "GetJob") = 2

\* C14: the poller sleeps at most JobTimeoutTicks + 1 intervals and sends at
\* most JobTimeoutTicks polls; when the last interval has passed it is in
\* TimedOut and the mutation has returned.
C14_PollingBounded ==
    \A p \in Procs :
        /\ elapsed[p].job <= JobTimeoutTicks + 1
        /\ Count(p, "GetJob") <= JobTimeoutTicks
        /\ Count(p, "GetJob") <= elapsed[p].job
        /\ pc[p] \in JobPcs => elapsed[p].job <= JobTimeoutTicks
        /\ elapsed[p].job = JobTimeoutTicks + 1
             => job[p].state = "TimedOut" /\ pc[p] = "done"

\* the job of a delete stayed Running at every poll until the timeout
C14_Witness ==
    \E p \in Procs :
        /\ op[p] = "delete" /\ pc[p] = "done"
        /\ job[p].state = "TimedOut"
        /\ Count(p, "GetJob") = JobTimeoutTicks

\* C15 as stated: the deadline of the job runs from the submission, so a
\* poller still Running has slept, reset wait included, no longer than the
\* job timeout.
C15_DeadlineFromSubmission ==
    \A p \in Procs :
        (pc[p] \in JobPcs /\ job[p].state = "Running")
            => elapsed[p].reset + elapsed[p].job <= JobTimeoutTicks

\* C15 amended: the deadline runs from the start of the job wait: the poller
\* is TimedOut exactly when its own sleeps exceed the job timeout, and a
\* poller still Running has slept no longer than it, whatever the reset wait
\* took.
C15_DeadlineFromWaitStart ==
    \A p \in Procs :
        /\ job[p].state = "TimedOut" <=> elapsed[p].job > JobTimeoutTicks
        /\ job[p].state = "Running" => elapsed[p].job <= JobTimeoutTicks
        /\ (pc[p] \in JobPcs /\ elapsed[p].job < JobTimeoutTicks)
             => job[p].state \in {"None", "Running"}

\* after a reset wait of one interval the job of an update timed out
C15_Witness ==
    \E p \in Procs :
        /\ op[p] = "update" /\ job[p].state = "TimedOut"
        /\ elapsed[p].reset >= 1
        /\ elapsed[p].reset + elapsed[p].job > JobTimeoutTicks + 1

\* C16: when the job was reported Failed with a message, the mutation has
\* returned the job error, which names the job and carries the failure with
\* that message.
C16_FailureMessageCarried ==
    \A p \in Procs :
        job[p].state = "Failed"
            => /\ pc[p] = "done"
               /\ ErrKind(p) \in JobErrors
               /\ diags[p] = <<diags[p][1], jobID[p], "JobFailed", job[p].message>>

\* the job of a create failed with "disk not found"
C16_Witness ==
    \E p \in Procs :
        /\ op[p] = "create" /\ pc[p] = "done"
        /\ job[p] = [state |-> "Failed", message |-> "disk not found"]

\* C17: when the volumes retrieved hold one volume of the name, the create
\* sets its ODataID as the resource ID and reads that volume; when they hold
\* none it returns the not-found error and the ID stays empty.
C17_UniqueMatchResolved ==
    \A p \in Procs :
        VolumesRetrieved(p) =>
            LET m == Matches(storageVolumes[p], VolumeName)
            IN  /\ Cardinality(m) = 1 =>
                     \E i \in m :
                         /\ pc[p] \in {"c_read", "done"}
                         /\ ErrKind(p) # "VolumeNotFound"
                         /\ pc[p] = "c_read" => d[p].id = storageVolumes[p][i][2]
                         /\ \A k \in 1..Len(log[p]) :
                                log[p][k][1] = "GetVolume"
                                    => log[p][k][2] = storageVolumes[p][i][2]
                /\ m = {} =>
                     /\ pc[p] = "done"
                     /\ diags[p] = <<"VolumeNotFound", VolumeName, StorageID>>
                     /\ d[p].id = ""
                     /\ "GetVolume" \notin Kinds(p)

\* a create found its volume next to another one and is about to read it
C17_Witness ==
    \E p \in Procs :
        /\ pc[p] = "c_read" /\ d[p].id = NewVolume
        /\ storageVolumes[p] =
              <<<<"other", ExistingVolume>>, <<VolumeName, NewVolume>>>>

\* C18: when the volumes retrieved hold two or more volumes of the name, the
\* create returns an error, sets no resource ID and reads no volume (the
\* claim as stated).
C18_AmbiguousMatchFails ==
    \A p \in Procs :
        (/\ VolumesRetrieved(p)
         /\ Cardinality(Matches(storageVolumes[p], VolumeName)) >= 2)
            => /\ pc[p] = "done"
               /\ HasError(p)
               /\ d[p].id = ""
               /\ "GetVolume" \notin Kinds(p)

\* C19: after the ctx of a mutation was canceled no step sends a GET of its
\* job (the claim as stated).
C19_CancelStopsPolling ==
    [][\A p \in Procs :
          ctxDone[p] => JobPolls(log'[p]) = JobPolls(log[p])]_vars

\* C20: a standalone read, or the read that follows an update, cannot be
\* sent while a mutation holds the lock of its endpoint (the claim as
\* stated).
C20_ReadsSerialized ==
    \A p \in Procs :
        (/\ pc[p] \in {"r_get", "u_refresh"}
         /\ MutexLocked(d[p].endpoint))
            => ~ENABLED (ReadVolume(p) \/ UpdateRefresh(p))

\* the phase a request belongs to: lookups and checks, submission, reset,
\* job poll, entity resolution and read
Phase(kind) ==
    CASE kind \in SubmitKinds -> 2
      [] kind \in {"SetPower", "GetPower"} -> 3
      [] kind = "GetJob" -> 4
      [] kind \in {"GetVolumes", "GetVolume"} -> 5
      [] OTHER -> 1
\* the volume a create resolved from the volumes it retrieved
ResolvedVolume(p) == getVolumeID(storageVolumes[p], VolumeName).volumeLink
ReadErrors == {"APIError", "StatusError"}

\* C21: the requests of a mutation follow the order of the phases; a power
\* operation or job poll was preceded by a submission that gave a job, a job
\* poll by a reset that did not time out, the volumes query and the resource
\* ID of a create by a Completed job; and every request but the read that
\* follows an update is sent while the mutation holds the lock.
C21_PhasesInOrder ==
    \A p \in Procs :
        op[p] \in Mutations =>
            /\ \A i, j \in 1..Len(log[p]) :
                   i < j => Phase(log[p][i][1]) <= Phase(log[p][j][1])
            /\ (\E k \in 1..Len(log[p]) : Phase(log[p][k][1]) \in {3, 4})
                   => /\ jobID[p] # NoLocation
                      /\ Kinds(p) \cap SubmitKinds # {}
            /\ "GetJob" \in Kinds(p)
                   => /\ elapsed[p].reset <= ResetTimeoutTicks
                      /\ pc[p] \notin PowerPcs \cup PowerWaitPcs
            /\ ("GetVolumes" \in Kinds(p) \/ (op[p] = "create" /\ d[p].id # ""))
                   => job[p].state = "Completed" /\ "GetJob" \in Kinds(p)
            /\ (log[p] # << >> /\ pc[p] \notin {"done", "u_refresh"})
                   => <<d[p].endpoint, p>> \in held

\* an OnReset create has gone through every phase and is about to read
C21_Witness ==
    \E p \in Procs :
        /\ op[p] = "create" /\ pc[p] = "c_read"
        /\ {"Post", "SetPower", "GetPower", "GetJob", "GetVolumes"} \subseteq Kinds(p)

\* C22: once a call has an error in its diagnostics it sends no request,
\* takes no step and keeps that error.
C22_ErrorAborts ==
    [][\A p \in Procs :
          HasError(p) => /\ log'[p] = log[p]
                         /\ pc'[p] = pc[p]
                         /\ diags'[p] = diags[p]]_vars

\* a create has returned the error of its drives lookup, its last request
C22_Witness ==
    \E p \in Procs :
        /\ op[p] = "create" /\ pc[p] = "done"
        /\ ErrKind(p) = "DrivesNotFound" /\ LastKind(p) = "GetDrives"

C24_PatchLeavesCapacityAndType ==
    \A p \in Procs :
        /\ \A k \in 1..Len(log[p]) :
               log[p][k][1] = "Patch"
                   => \A f \in log[p][k][3] :
                          /\ f[1] \notin {"CapacityBytes", "VolumeType"}
                          /\ f[2] \notin {"capacity_bytes", "volume_type"}
        /\ op[p] = "update" => "Post" \notin Kinds(p)

\* an update has sent its PATCH, a create its POST with the capacity
C24_Witness ==
    \E p, q \in Procs :
        /\ op[p] = "update" /\ "Patch" \in Kinds(p)
        /\ op[q] = "create" /\ "Post" \in Kinds(q)
        /\ <<"CapacityBytes", "capacity_bytes">> \in log[q][Len(log[q])][3]

\* C25: the reset wait ends by timeout exactly when its own sleeps exceed
\* reset_timeout, before any sleep of the job wait; a job wait that timed out
\* has sent all JobTimeoutTicks polls, whatever the reset wait took; neither
\* phase is begun again.
C25_IndependentTimeouts ==
    \A p \in Procs :
        /\ elapsed[p].reset <= ResetTimeoutTicks + 1
        /\ Count(p, "GetPower") <= ResetTimeoutTicks
        /\ elapsed[p].reset > ResetTimeoutTicks
             => /\ pc[p] = "done" /\ ErrKind(p) = "ResetError"
                /\ elapsed[p].job = 0 /\ job[p].state = "None"
        /\ job[p].state = "TimedOut"
             => /\ Count(p, "GetJob") = JobTimeoutTicks
                /\ elapsed[p].job = JobTimeoutTicks + 1
                /\ Count(p, "SetPower") <= 1

\* after a reset wait that used all of reset_timeout, the job of a create
\* was polled JobTimeoutTicks times before it timed out
C25_Witness ==
    \E p \in Procs :
        /\ op[p] = "create" /\ job[p].state = "TimedOut"
        /\ elapsed[p].reset = ResetTimeoutTicks
        /\ Count(p, "GetJob") = JobTimeoutTicks

\* C26 as stated: a create that returned an error has an empty resource ID,
\* the ID of a create is set only after a Completed job and the volumes
\* query, and update and delete leave the ID as it was.
C26_IdOnlyWhenCreated ==
    \A p \in Procs :
        /\ (op[p] = "create" /\ pc[p] = "done" /\ HasError(p)) => d[p].id = ""
        /\ (op[p] = "create" /\ d[p].id # "")
             => job[p].state = "Completed" /\ VolumesRetrieved(p)
        /\ (op[p] \in {"update", "delete"} /\ "GetVolume" \notin Kinds(p))
             => d[p].id = ExistingVolume

\* C26 amended: the ID of a create is set only after a Completed job and is
\* the volume resolved by name; a create that fails before its read has an
\* empty ID, a create whose read fails returns that error with the ID set;
\* update and delete leave the ID as it was.
C26_IdAfterResolution ==
    \A p \in Procs :
        /\ (op[p] = "create" /\ d[p].id # "")
             => /\ job[p].state = "Completed" /\ VolumesRetrieved(p)
                /\ d[p].id = ResolvedVolume(p)
        /\ (op[p] = "create" /\ HasError(p) /\ ErrKind(p) \notin ReadErrors)
             => d[p].id = ""
        /\ (op[p] = "create" /\ ErrKind(p) \in ReadErrors)
             => d[p].id # "" /\ d[p].id = ResolvedVolume(p)
        /\ (op[p] \in {"update", "delete"} /\ "GetVolume" \notin Kinds(p))
             => d[p].id = ExistingVolume

\* the read of the volume a create resolved was answered with status 500
C26_Witness ==
    \E p \in Procs :
        /\ op[p] = "create" /\ pc[p] = "done"
        /\ ErrKind(p) = "StatusError" /\ d[p].id = NewVolume

\* C27: a create that has returned without error has a resource ID, the
\* volume it resolved by name (the claim as stated).
C27_CreatedHasId ==
    \A p \in Procs :
        (op[p] = "create" /\ pc[p] = "done" /\ ~HasError(p))
            => d[p].id # "" /\ d[p].id = ResolvedVolume(p)

\* C28: after a read of volume V the call has no error and the ID V when the
\* GET succeeded, no error and an empty ID when it was answered 404, an error
\* and the ID V in every other case; the Read handler sends nothing but that
\* one GET and takes no lock.
C28_ReadOutcomes ==
    \A p \in Procs :
        /\ (pc[p] = "done" /\ log[p] # << >> /\ LastKind(p) = "GetVolume")
             => LET request == log[p][Len(log[p])]
                    V == request[2]
                    outcome == request[3]
                IN  /\ outcome = "ok" => ~HasError(p) /\ d[p].id = V
                    /\ outcome = "404" => ~HasError(p) /\ d[p].id = ""
                    /\ outcome \notin {"ok", "404"}
                         => ErrKind(p) \in ReadErrors /\ d[p].id = V
        /\ op[p] = "read"
             => /\ Kinds(p) \subseteq {"GetVolume"}
                /\ Len(log[p]) <= 1
                /\ \A h \in held : h[2] # p

\* a Read was answered 404 and cleared the ID without error
C28_Witness ==
    \E p \in Procs :
        /\ op[p] = "read" /\ pc[p] = "done"
        /\ log[p] = <<<<"GetVolume", ExistingVolume, "404">>>>
        /\ d[p].id = "" /\ ~HasError(p)

\* C29: every poll of a job is sent with a non-empty handle, the Location of
\* the 202 response to the submission of the same call, which is the
\* Location of no other call.
C29_PollUsesOwnLocation ==
    \A p \in Procs :
        \A k \in 1..Len(log[p]) :
            log[p][k][1] = "GetJob"
                => /\ log[p][k][2] # NoLocation
                   /\ ~res[p].err /\ res[p].status = StatusAccepted
                   /\ log[p][k][2] = res[p].location
                   /\ \A q \in Procs \ {p} : log[p][k][2] # res[q].location

\* two calls poll their jobs, each with its own Location
C29_Witness ==
    \E p, q \in Procs :
        /\ p # q /\ op[p] = "delete" /\ op[q] = "create"
        /\ "GetJob" \in Kinds(p) /\ "GetJob" \in Kinds(q)
        /\ res[p].location # res[q].location

\* C30: getDrives fails when a requested name is the Name of no attached
\* drive, and when it succeeds it returns as many drives as names were
\* requested, one of each requested name (the claim as stated).
C30_DrivesAllMatched ==
    drivesCall.called =>
        LET drives == drivesCall.drives
            driveNames == drivesCall.driveNames
            r == drivesCall.result
        IN  /\ (\E i \in 1..Len(driveNames) :
                    \A j \in 1..Len(drives) : drives[j] # driveNames[i])
                 => r.err
            /\ ~r.err
                 => /\ Len(r.drives) = Len(driveNames)
                    /\ \A i \in 1..Len(driveNames) :
                           \E j \in 1..Len(r.drives) : r.drives[j] = driveNames[i]

\* d.Get("drives") is empty or has a nil entry
BadDrives(p) ==
    \/ Len(d[p].drives) = 0
    \/ \E i \in 1..Len(d[p].drives) : d[p].drives[i] = Nil

ConfigPcs == {"c_config", "u_config"}
DrivesConfigErrors == {"DrivesEmpty", "DriveBlank"}

\* C31: a create or update whose drives list is empty or has a blank entry
\* sends no request at all; it takes the lock of its endpoint, fails at the
\* conversion of the drives, and has released the lock when it has returned.
C31_BadDrivesFailBeforeRequests ==
    \A p \in Procs :
        (op[p] \in {"create", "update"} /\ pc[p] # "idle" /\ BadDrives(p))
            => /\ log[p] = << >>
               /\ pc[p] \in LockPcs \cup ConfigPcs \cup {"done"}
               /\ pc[p] \in ConfigPcs
                    => <<getRedfishServerEndpoint(p), p>> \in held
               /\ pc[p] = "done"
                    => /\ ErrKind(p) \in DrivesConfigErrors \cup {"ConfigError"}
                       /\ \A h \in held : h[2] # p
               /\ ErrKind(p) = "DrivesEmpty" => Len(d[p].drives) = 0
               /\ ErrKind(p) = "DriveBlank" => Len(d[p].drives) > 0

\* a create has failed on an empty list and an update on a blank entry, with
\* nothing sent and no lock left held
C31_Witness ==
    \E p, q \in Procs :
        /\ op[p] = "create" /\ pc[p] = "done" /\ ErrKind(p) = "DrivesEmpty"
        /\ op[q] = "update" /\ pc[q] = "done" /\ ErrKind(q) = "DriveBlank"
        /\ log[p] = << >> /\ log[q] = << >> /\ held = {}

\* errors that updateRedfishStorageVolume returns
UpdateMutationErrors ==
    DrivesConfigErrors
        \cup {"SystemsError", "StorageError", "ControllerNotFound",
              "ApplyTimesError", "CapabilityUnsupported",
              "UpdateVolumeError", "ResetError"}
        \cup JobErrors

\* C32: an Update reads the volume only after its mutation returned without
\* error (job Completed, lock released), and then the read is its last step;
\* an Update whose mutation failed ends with the mutation's error and has
\* sent no GET of the volume.
C32_RefreshIffMutationOk ==
    \A p \in Procs :
        op[p] = "update" =>
            /\ "GetVolume" \in Kinds(p)
                 => /\ job[p].state = "Completed"
                    /\ pc[p] = "done"
                    /\ LastKind(p) = "GetVolume" /\ Count(p, "GetVolume") = 1
            /\ pc[p] = "u_refresh"
                 <=> (job[p].state = "Completed" /\ "GetVolume" \notin Kinds(p)
                        /\ pc[p] # "done")
            /\ (pc[p] = "u_refresh" => ~HasError(p))
            /\ (pc[p] = "done" /\ job[p].state = "Completed")
                 => "GetVolume" \in Kinds(p) \/ ErrKind(p) = "ConfigError"
            /\ (pc[p] = "done" /\ job[p].state # "Completed")
                 => /\ "GetVolume" \notin Kinds(p)
                    /\ ErrKind(p) \in UpdateMutationErrors \cup {"ConfigError"}
                    /\ ErrKind(p) \in JobErrors => diags[p][2] = jobID[p]

\* one Update failed at its submission and sent no read, another completed
\* and read the volume
C32_Witness ==
    \E p, q \in Procs :
        /\ op[p] = "update" /\ pc[p] = "done"
        /\ ErrKind(p) = "UpdateVolumeError" /\ "GetVolume" \notin Kinds(p)
        /\ op[q] = "update" /\ pc[q] = "done"
        /\ job[q].state = "Completed" /\ LastKind(q) = "GetVolume"

====
